---- MODULE Spec2Model ----
(***************************************************************************)
(* Model of repositoryupdater/addon.py: the Addon object of the Home       *)
(* Assistant add-on repository updater.  One add-on is followed through    *)
(* its runs: construction (current and latest version resolution), the     *)
(* needs_update verdict, and update() with its generation steps, of which  *)
(* generate_addon_changelog is modelled down to the bytes it seeks over.   *)
(*                                                                         *)
(* Text is a sequence of one-character strings; a changelog file is a      *)
(* sequence of tokens, one token per byte the code can tell apart.         *)
(***************************************************************************)
EXTENDS Integers, Sequences, FiniteSets, TLC

(***************************************************************************)
(* Bounds of the model.                                                    *)
(***************************************************************************)
MaxReleases == 2
MaxCommits == 3
MaxRuns == 2
MaxLogCommits == 102
MaxBump == 2

(***************************************************************************)
(* Program constants.                                                      *)
(***************************************************************************)
CHANNEL_STABLE == "stable"
CHANNEL_BETA == "beta"
CHANNEL_EDGE == "edge"
Channels == {CHANNEL_STABLE, CHANNEL_BETA, CHANNEL_EDGE}

\* addon.py:229  last_commit.sha[:7]
ShortShaLen == 7
\* addon.py:503  if counter >= 100
MaxBullets == 100

config_files == <<"config.json", "config.yaml", "config.yml">>
NoFile == "none"

(***************************************************************************)
(* Text: sequences of characters.                                          *)
(***************************************************************************)
Digits == {"0", "1", "2", "3", "4", "5", "6", "7", "8", "9"}
Letters == {"a", "b", "c", "d", "e", "f", "g", "h", "i", "j", "k", "l", "m",
            "n", "o", "p", "q", "r", "s", "t", "u", "v", "w", "x", "y", "z"}

\* 1-based index of the first occurrence of ch in s, 0 when there is none
\* (str.find / the "in" operator on one character).
RECURSIVE IndexFrom(_, _, _)
IndexFrom(s, ch, i) ==
    IF i > Len(s) THEN 0
    ELSE IF s[i] = ch THEN i
    ELSE IndexFrom(s, ch, i + 1)

IndexOf(s, ch) == IndexFrom(s, ch, 1)

Contains(s, ch) == IndexOf(s, ch) # 0

\* str.split(".") : the segments between the dots, empty segments kept.
RECURSIVE SplitDots(_)
SplitDots(s) ==
    LET d == IndexOf(s, ".")
    IN  IF d = 0 THEN <<s>>
        ELSE <<SubSeq(s, 1, d - 1)>> \o SplitDots(SubSeq(s, d + 1, Len(s)))

\* Version-prefix stripping as the specification words it: one leading "v"
\* is removed, and no more.
lstrip_one(s) ==
    IF Len(s) > 0 /\ s[1] = "v" THEN SubSeq(s, 2, Len(s)) ELSE s

\* str.lstrip("v"): every leading "v" is removed.
RECURSIVE lstrip_v(_)
lstrip_v(s) ==
    IF Len(s) > 0 /\ s[1] = "v" THEN lstrip_v(SubSeq(s, 2, Len(s))) ELSE s

(***************************************************************************)
(* semver: the grammar of a semantic version, as the semver package's      *)
(* regular expression reads it.                                            *)
(*   core        three dot-separated numeric identifiers (no leading zero)  *)
(*   prerelease  "-" then dot-separated identifiers over [0-9A-Za-z-], a    *)
(*               numeric one without leading zero                           *)
(*   build       "+" then dot-separated non-empty identifiers over          *)
(*               [0-9A-Za-z-]                                               *)
(***************************************************************************)
AllIn(s, S) == \A i \in 1..Len(s) : s[i] \in S

NumericId(seg) ==
    /\ Len(seg) > 0
    /\ AllIn(seg, Digits)
    /\ (Len(seg) = 1 \/ seg[1] # "0")

PrereleaseId(seg) ==
    /\ Len(seg) > 0
    /\ AllIn(seg, Digits \cup Letters \cup {"-"})
    /\ (AllIn(seg, Digits) => NumericId(seg))

BuildId(seg) ==
    /\ Len(seg) > 0
    /\ AllIn(seg, Digits \cup Letters \cup {"-"})

\* The parts of a version string: what stands before the first "+", split at
\* its first "-".
SemverParts(s) ==
    LET plus == IndexOf(s, "+")
        main == IF plus = 0 THEN s ELSE SubSeq(s, 1, plus - 1)
        hy   == IndexOf(main, "-")
    IN  [core     |-> IF hy = 0 THEN main ELSE SubSeq(main, 1, hy - 1),
         has_pre  |-> hy # 0,
         pre      |-> IF hy = 0 THEN <<>> ELSE SubSeq(main, hy + 1, Len(main)),
         has_build |-> plus # 0,
         build    |-> IF plus = 0 THEN <<>> ELSE SubSeq(s, plus + 1, Len(s))]

\* semver.parse(version) does not raise ValueError.
semver_parses(s) ==
    LET p    == SemverParts(s)
        core == SplitDots(p.core)
        pre  == SplitDots(p.pre)
        bld  == SplitDots(p.build)
    IN  /\ Len(core) = 3
        /\ \A i \in 1..3 : NumericId(core[i])
        /\ (p.has_pre => \A i \in 1..Len(pre) : PrereleaseId(pre[i]))
        /\ (p.has_build => \A i \in 1..Len(bld) : BuildId(bld[i]))

\* semver.parse_version_info(version).prerelease is not None
semver_has_prerelease(s) == SemverParts(s).has_pre


(***************************************************************************)
(* State.                                                                  *)
(*                                                                         *)
(* The add-on's source repository (read through the GitHub API):           *)
(*   releases       get_releases(), newest first.  A release is            *)
(*                  [tag_name, prerelease, draft, commit, annotated]:      *)
(*                  commit is the commit its tag stands on, annotated      *)
(*                  whether refs/tags/<tag_name> points at a tag object    *)
(*   head           the default branch holds the commits 1..head, commit   *)
(*                  head being get_commits()[0]                            *)
(*   remote_config  the configuration file the add-on's source holds       *)
(*   bump           the newest first-parent commit that adds a "version:"  *)
(*                  line to the configuration, 0 when there is none        *)
(*   readme_template whether the source holds .README.j2                   *)
(* The run's parameters: channel, updating.                                *)
(* The destination add-on directory: dest.                                 *)
(* The Addon object: addon; its clone: git_repo (the commit checked out).  *)
(* The caller: pc (the next step), verdict and force (the last             *)
(* needs_update call), run (the number of the run), dest0 (the             *)
(* destination as update() found it), echo (the last line                  *)
(* generate_addon_changelog printed), composed (calls of the composition   *)
(* tool in this run).                                                      *)
(***************************************************************************)
VARIABLES releases, head, remote_config, bump, readme_template,
          channel, updating, dest, addon, git_repo,
          pc, verdict, force, run, dest0, echo, composed, get_commit_peels

env == <<releases, head, remote_config, bump, readme_template, channel,
         updating, get_commit_peels>>
vars == <<releases, head, remote_config, bump, readme_template, channel,
          updating, dest, addon, git_repo, pc, verdict, force, run, dest0,
          echo, composed, get_commit_peels>>

\* An optional value: None is the empty tuple, a value v is <<v>>.
None == <<>>
Some(v) == <<v>>
IsSome(o) == Len(o) = 1
Get(o) == o[1]

(***************************************************************************)
(* Commits and their hashes.  Commit c's sha is nine hexadecimal digits of *)
(* which the fifth and sixth spell c, so that sha[:7] tells commits apart. *)
(***************************************************************************)
Hex == <<"0", "1", "2", "3", "4", "5", "6", "7", "8", "9",
         "a", "b", "c", "d", "e", "f">>

Sha(c) == <<"c", "0", "f", "e", Hex[((c \div 16) % 16) + 1], Hex[(c % 16) + 1],
            "d", "9", "b">>

\* sha[:7]
short_sha(c) == SubSeq(Sha(c), 1, ShortShaLen)

IsPrefix(p, s) == Len(p) <= Len(s) /\ SubSeq(s, 1, Len(p)) = p

(***************************************************************************)
(* The GitHub API on the add-on's source repository.                       *)
(***************************************************************************)
\* The published releases: a draft has no tag in the repository.
Published == {i \in 1..Len(releases) : ~releases[i].draft}

\* get_git_ref("tags/" + name): the release whose tag it is, 0 when it raises
\* UnknownObjectException.
git_tag(name) ==
    IF \E i \in Published : releases[i].tag_name = name
    THEN CHOOSE i \in Published : releases[i].tag_name = name
    ELSE 0

\* get_commit(name) of a tag name or of an abbreviated sha: the commit, 0
\* when it raises GithubException.
get_commit(name) ==
    IF git_tag(name) # 0 THEN releases[git_tag(name)].commit
    ELSE IF Len(name) >= ShortShaLen /\ \E c \in 1..head : IsPrefix(name, Sha(c))
    THEN CHOOSE c \in 1..head : IsPrefix(name, Sha(c))
    ELSE 0


\* A git object is a number: commit c is object c, the tag object of an
\* annotated tag on commit c is object TagObject(c).
TagObjectBase == 1000
TagObject(c) == TagObjectBase + c

\* ref.object of get_git_ref("tags/" + tag_name) for release r.
ref_object(r) ==
    IF r.annotated THEN [type |-> "tag", sha |-> TagObject(r.commit)]
    ELSE [type |-> "commit", sha |-> r.commit]

\* get_git_tag(sha).object.sha: the object a tag object points at.
get_git_tag(sha) == sha - TagObjectBase

\* get_commit(sha) of an object's full sha: the commit, 0 when it raises.
\* What the commits endpoint answers to the sha of a tag object is the
\* service's choice, which the code does not make: get_commit_peels tells
\* whether it answers with the commit the tag object points at or raises.
get_commit_sha(sha) ==
    IF sha \in 1..head THEN sha
    ELSE IF get_commit_peels /\ get_git_tag(sha) \in 1..head
    THEN get_git_tag(sha)
    ELSE 0

(***************************************************************************)
(* class Addon                                                             *)
(***************************************************************************)
\* __init__, lines 73-86 and the class attribute existing_config_filename.
\* Attributes the constructor leaves unset (current_commit, current_release,
\* latest_version) read None / 0 here.
NewAddon ==
    [current_version |-> None, current_commit |-> 0, current_release |-> None,
     existing_config_filename |-> NoFile,
     latest_version |-> None, latest_release |-> None,
     latest_is_release |-> TRUE, latest_commit |-> 0, up_to_date |-> TRUE]

\* __load_current_info: the add-on with its current version resolved, and
\* whether an exception left the method.
load_current_info(a) ==
    IF dest.config_file = NoFile
    THEN [addon |-> a, raised |-> FALSE]
    ELSE
      LET ver == dest.config_version
          a1  == [a EXCEPT !.existing_config_filename = dest.config_file,
                           !.current_version = Some(ver)]
          v   == <<"v">> \o ver
      IN  IF semver_parses(ver)
          THEN LET t == IF git_tag(v) # 0 THEN git_tag(v) ELSE git_tag(ver)
                   c == IF t = 0 THEN 0
                        ELSE get_commit_sha(ref_object(releases[t]).sha)
               IN  [addon |-> [a1 EXCEPT !.current_commit = c],
                    raised |-> c = 0]
          ELSE LET c == IF get_commit(v) # 0 THEN get_commit(v)
                        ELSE get_commit(ver)
               IN  [addon |-> [a1 EXCEPT !.current_commit = c],
                    raised |-> c = 0]

\* _is_prerelease(version)
is_prerelease(version) ==
    IF semver_parses(version) THEN semver_has_prerelease(version)
    ELSE Contains(version, "-")

\* Line 211 without the test of the draft flag: a release listing that lets drafts through.
release_skipped_drafts_pass(release, ch) ==
    (release.prerelease \/ is_prerelease(lstrip_v(release.tag_name)))
        /\ ch # CHANNEL_BETA

\* Line 211: the release is skipped.
release_skipped(release, ch) ==
    release.draft
    \/ ((release.prerelease \/ is_prerelease(lstrip_v(release.tag_name)))
        /\ ch # CHANNEL_BETA)

\* Lines 199-214: the index of the release the loop breaks on, 0 when the
\* loop runs to its end.
select_release(ch) ==
    IF \E i \in 1..Len(releases) : ~release_skipped(releases[i], ch)
    THEN CHOOSE i \in 1..Len(releases) :
            /\ ~release_skipped(releases[i], ch)
            /\ \A j \in 1..(i - 1) : release_skipped(releases[j], ch)
    ELSE 0

\* Line 228
edge_overrides(a) ==
    a.latest_commit = 0 \/ Sha(head) # Sha(a.latest_commit)

\* Lines 199-214, sel being the release the loop breaks on: latest_version
\* is the label of the last release the loop looked at.
latest_from_releases(a, sel) ==
    [a EXCEPT
       !.latest_version =
           IF sel # 0 THEN Some(lstrip_v(releases[sel].tag_name))
           ELSE IF Len(releases) # 0
           THEN Some(lstrip_v(releases[Len(releases)].tag_name))
           ELSE None,
       !.latest_release = IF sel = 0 THEN None ELSE Some(releases[sel])]

\* Lines 217-224: the commit of a tag's ref, a tag object dereferenced.
tag_commit(obj) ==
    get_commit_sha(IF obj.type = "tag" THEN get_git_tag(obj.sha) ELSE obj.sha)

\* Lines 216-224
latest_from_tag(a) ==
    IF IsSome(a.latest_release)
    THEN [a EXCEPT !.latest_commit = tag_commit(ref_object(Get(a.latest_release)))]
    ELSE a

\* Lines 226-231 without line 229: the release label is kept.
latest_from_head_keeps_label(a, ch) ==
    IF ch = CHANNEL_EDGE /\ edge_overrides(a)
    THEN [a EXCEPT !.latest_commit = head, !.latest_is_release = FALSE]
    ELSE a

\* Lines 226-231
latest_from_head(a, ch) ==
    IF ch = CHANNEL_EDGE /\ edge_overrides(a)
    THEN [a EXCEPT !.latest_version = Some(short_sha(head)),
                   !.latest_commit = head,
                   !.latest_is_release = FALSE]
    ELSE a

\* Lines 233-258: how the search for the configuration file ends.
latest_config(a) ==
    [addon |-> a,
     end |-> IF a.latest_commit = 0
             THEN "raised:load_latest_info"       \* line 245, None.sha
             ELSE IF remote_config = NoFile
             THEN "exited:load_latest_info"       \* line 258
             ELSE "ok"]

\* __load_latest_info: the add-on with its latest version resolved, and how
\* the method ended: "ok", "exited:..." (sys.exit(1)) or "raised:..." (an
\* exception nothing catches).
load_latest_info(a, ch) ==
    latest_config(
        latest_from_head(
            latest_from_tag(latest_from_releases(a, select_release(ch))), ch))

\* needs_update without the comparison of the commits: labels only.
needs_update_labels_only(a, f) ==
    updating /\ (f \/ a.current_version # a.latest_version)

\* needs_update(force)
needs_update(a, f) ==
    updating /\ (f \/ a.current_version # a.latest_version
                   \/ a.current_commit # a.latest_commit)


(***************************************************************************)
(* The changelog file.  A token stands for one byte, or for a run of bytes *)
(* without a line break that the code never looks into.                    *)
(***************************************************************************)
Tok(k) == [k |-> k, c |-> 0, v |-> <<>>]
NL == Tok("nl")
\* "## <version> - <date>" and its notes, as the composition tool renders them
Entry(version) == [k |-> "entry", c |-> 0, v |-> version]
\* "## Unreleased changes since <version> - <date>"
Since(version) == [k |-> "since", c |-> 0, v |-> version]
\* "## Unreleased changes"
Unreleased == Tok("unreleased")
\* "- <first line of the message of commit c>"
Bullet(c) == [k |-> "bullet", c |-> c, v |-> <<>>]
\* "Note: More than <counter> commits, further commits are suppressed."
Note(counter) == [k |-> "note", c |-> counter, v |-> <<>>]

\* "# Changelog\n\n"
CHANGELOG_HEADER == <<Tok("# Changelog"), NL, NL>>

\* Lines 440-445: the block appended after composition.
MARKER_BLOCK == <<NL, Tok("comment"), NL, Tok("marker comment"), NL, NL>>

\* Addon.CHANGELOG_MARKER in line: the marker comment, or any other line
\* that holds the marker's words.
has_marker(line) ==
    \E i \in 1..Len(line) : line[i].k \in {"marker comment", "marker words"}

\* str.rstrip()
RECURSIVE rstrip(_)
rstrip(s) ==
    IF Len(s) > 0 /\ s[Len(s)].k \in {"nl", "space"}
    THEN rstrip(SubSeq(s, 1, Len(s) - 1))
    ELSE s

\* __read_last_nonempty_line, the seeks as the code makes them.  A position
\* is the offset of the next byte read; -1 stands for the OSError of a seek
\* before the start of the file.  read(1) at the end of the file returns b"".
RECURSIVE skip_newlines(_, _)
skip_newlines(file, p) ==                          \* lines 408-409
    IF p < Len(file) /\ file[p + 1] = NL
    THEN IF p - 1 < 0 THEN -1 ELSE skip_newlines(file, p - 1)
    ELSE IF p < Len(file) THEN p + 1 ELSE p

RECURSIVE seek_line_start(_, _)
seek_line_start(file, p) ==                        \* lines 411-412
    IF p < Len(file) /\ file[p + 1] = NL
    THEN p + 1
    ELSE LET q == IF p < Len(file) THEN p + 1 ELSE p
         IN  IF q - 2 < 0 THEN -1 ELSE seek_line_start(file, q - 2)

\* __read_last_nonempty_line without lines 408-409: a variant which reads
\* the text after the last line break but one.
read_last_line(file) ==
    LET p0 == Len(file) - 1
        p2 == IF p0 < 0 \/ p0 - 1 < 0 THEN -1
              ELSE seek_line_start(file, p0 - 1)
        start == IF p2 < 0 THEN 0 ELSE p2
    IN  rstrip(SubSeq(file, start + 1, Len(file)))

read_last_nonempty_line(file) ==
    LET p0 == Len(file) - 1                        \* line 407
        p1 == IF p0 < 0 THEN -1 ELSE skip_newlines(file, p0)
        p2 == IF p1 < 0 \/ p1 - 2 < 0 THEN -1      \* line 410
              ELSE seek_line_start(file, p1 - 2)
        start == IF p2 < 0 THEN 0 ELSE p2          \* lines 413-414
    IN  rstrip(SubSeq(file, start + 1, Len(file)))

\* The composition tool (changelog-updater update --write) on a changelog:
\* the entry goes below the header and above the earlier entries, and the
\* comments are gone from what it writes (lines 438-439).
is_comment(t) == t.k \in {"comment", "marker comment"}

changelog_updater(file, version) ==
    LET body == SelectSeq(file, LAMBDA t : ~is_comment(t))
        hdr  == IF IsPrefix(CHANGELOG_HEADER, body) THEN Len(CHANGELOG_HEADER) ELSE 0
    IN  SubSeq(body, 1, hdr) \o <<Entry(version), NL, NL>>
           \o SubSeq(body, hdr + 1, Len(body))

\* Lines 464 and 505, n times: one "- <subject>" line for each of
\* commits[i], ..., commits[i + n - 1], in that order.
bullet_lines(commits, i, n) ==
    [k \in 1..(2 * n) |->
        IF k % 2 = 1 THEN Bullet(commits[i + (k - 1) \div 2]) ELSE NL]

\* Lines 498-507 with the cap tested as counter > 100: one bullet too many.
log_bullets_off_by_one(commits, i, counter, stop_commit) ==
    LET breaks == {j \in i..Len(commits) :
                      \/ stop_commit # 0 /\ commits[j] = stop_commit
                      \/ counter + (j - i) > MaxBullets}
        exit == IF breaks = {} THEN Len(commits) + 1
                ELSE CHOOSE j \in breaks : \A k \in breaks : j <= k
    IN  bullet_lines(commits, i, exit - i)
           \o (IF exit <= Len(commits)
                  /\ ~(stop_commit # 0 /\ commits[exit] = stop_commit)
               THEN <<NL, Note(counter + (exit - i)), NL>>
               ELSE <<>>)

\* Lines 498-507, the loop over commits[i..] entered with counter bullets
\* written.  Every pass that does not break writes one bullet and adds one to
\* the counter (lines 505-507), so pass j runs with counter + (j - i).  The
\* loop leaves at the first pass that meets the stop commit (line 499) or the
\* cap (line 503), or runs out of commits; the cap, tested after the stop
\* commit, writes the note before it breaks.
log_bullets(commits, i, counter, stop_commit) ==
    LET breaks == {j \in i..Len(commits) :
                      \/ stop_commit # 0 /\ commits[j] = stop_commit
                      \/ counter + (j - i) >= MaxBullets}
        exit == IF breaks = {} THEN Len(commits) + 1
                ELSE CHOOSE j \in breaks : \A k \in breaks : j <= k
    IN  bullet_lines(commits, i, exit - i)
           \o (IF exit <= Len(commits)
                  /\ ~(stop_commit # 0 /\ commits[exit] = stop_commit)
               THEN <<NL, Note(counter + (exit - i)), NL>>
               ELSE <<>>)

\* git log --first-parent of the clone: the commits from the one checked out
\* back to the first, newest first.
git_log(checkout) == [i \in 1..checkout |-> checkout - i + 1]

\* compare(base, head).commits: the commits after base up to head, in
\* chronological order.
compare_commits(base, hd) == [i \in 1..(hd - base) |-> base + i]

\* Line 463 without reversed(): the chronological order is kept.
not_reversed(s) == s

\* reversed(...)
reversed(s) == [i \in 1..Len(s) |-> s[Len(s) - i + 1]]

\* Line 464 over the whole list.
compare_bullets(commits, i) ==
    bullet_lines(commits, i, Len(commits) - i + 1)

\* The version the version-bump commit sets ("+version: 0.9.0").
stop_commit_version == <<"0", ".", "9", ".", "0">>


\* Line 431 with the up-to-date test turned around: the opposite guard.
skip_changelog_when_outdated(a, changelog_exists) ==
    ~a.up_to_date /\ changelog_exists

\* Line 431
skip_changelog(a, changelog_exists) == a.up_to_date /\ changelog_exists

\* generate_addon_changelog: the changelog file it leaves, the line it
\* prints, the number of calls of the composition tool, and how it ends.
\* tool_ok: changelog-updater exits with 0; compare_ok: the compare query
\* does not raise.
generate_addon_changelog_result(a, tool_ok, compare_ok) ==
    LET existed == IsSome(dest.changelog)
        \* line 428
        legacy == existed
                  /\ ~has_marker(read_last_nonempty_line(Get(dest.changelog)))
        changelog_exists == existed /\ ~legacy
        version == lstrip_v(Get(a.current_release).tag_name)   \* line 392
        composedA ==
            LET base == IF changelog_exists THEN Get(dest.changelog)
                        ELSE CHANGELOG_HEADER                  \* line 436
            IN  IF tool_ok
                THEN [changelog |-> Some(changelog_updater(base, version)
                                          \o MARKER_BLOCK),
                      echo |-> "Done", composed |-> 1, end |-> "ok"]
                ELSE [changelog |-> Some(base), echo |-> "Failed!",
                      composed |-> 1, end |-> "exited:generate_addon_changelog"]
        composedB ==
            IF tool_ok
            THEN [changelog |-> Some(changelog_updater(CHANGELOG_HEADER, version)),
                  echo |-> "Done", composed |-> 1, end |-> "ok"]
            ELSE [changelog |-> Some(CHANGELOG_HEADER), echo |-> "Failed!",
                  composed |-> 1, end |-> "exited:generate_addon_changelog"]
        \* lines 458-464
        since_release ==
            CHANGELOG_HEADER
              \o <<Since(lstrip_v(Get(a.latest_release).tag_name)), NL, NL>>
              \o compare_bullets(
                     reversed(compare_commits(Get(a.latest_release).commit,
                                              a.current_commit)), 1)
        \* lines 469-507
        since_bump ==
            CHANGELOG_HEADER
              \o (IF bump = 0 THEN <<Unreleased, NL, NL>>
                  ELSE <<Since(stop_commit_version), NL, NL>>)
              \o log_bullets(git_log(git_repo), 1, 0, bump)
    IN  IF a.latest_is_release /\ channel = CHANNEL_STABLE
        THEN IF skip_changelog(a, changelog_exists)
             THEN [changelog |-> dest.changelog, echo |-> "Skipping",
                   composed |-> 0, end |-> "ok"]
             ELSE composedA
        ELSE IF a.latest_is_release
        THEN composedB
        ELSE IF IsSome(a.latest_release)
        THEN IF compare_ok
             THEN [changelog |-> Some(since_release), echo |-> "Done",
                   composed |-> 0, end |-> "ok"]
             ELSE [changelog |-> dest.changelog, echo |-> "",
                   composed |-> 0, end |-> "raised:generate_addon_changelog"]
        ELSE [changelog |-> Some(since_bump), echo |-> "Done",
              composed |-> 0, end |-> "ok"]

(***************************************************************************)
(* The steps of a run.                                                     *)
(***************************************************************************)
\* Lines 93-101: the constructor after __load_latest_info.
init_after_latest(lat) ==
    IF lat.end # "ok"
    THEN [addon |-> lat.addon, pc |-> lat.end]
    ELSE [addon |-> [lat.addon EXCEPT
                       !.up_to_date = ~needs_update(lat.addon, FALSE)],
          pc |-> "constructed"]

\* Lines 92-101: the constructor after __load_current_info.
init_after_current(cur) ==
    IF cur.raised THEN [addon |-> cur.addon, pc |-> "raised:load_current_info"]
    ELSE IF ~updating THEN [addon |-> cur.addon, pc |-> "constructed"]
    ELSE init_after_latest(load_latest_info(cur.addon, channel))

constructed(r) == addon' = r.addon /\ pc' = r.pc

\* Addon(...): the constructor.
new_Addon ==
    /\ pc = "new"
    /\ constructed(init_after_current(load_current_info(NewAddon)))
    /\ UNCHANGED <<env, dest, git_repo, verdict, force, run, dest0, echo, composed>>

\* The caller asks addon.needs_update(force).
call_needs_update ==
    /\ pc = "constructed"
    /\ \E f \in BOOLEAN :
          /\ force' = f
          /\ verdict' = needs_update(addon, f)
    /\ pc' = "checked"
    /\ UNCHANGED <<env, dest, addon, git_repo, run, dest0, echo, composed>>

\* The caller updates the add-ons that need it.
caller_updates == verdict

\* update() without lines 120-122: current stays as the constructor left it.
update_reassigns_nothing ==
    /\ pc = "checked"
    /\ caller_updates
    /\ IF ~updating
       THEN pc' = "exited:update" /\ addon' = addon
       ELSE addon' = addon /\ pc' = "clone_repository"
    /\ dest0' = dest
    /\ UNCHANGED <<env, dest, git_repo, verdict, force, run, echo, composed>>

\* update(), lines 114-122; its calls are the steps that follow.
update ==
    /\ pc = "checked"
    /\ caller_updates
    /\ IF ~updating
       THEN pc' = "exited:update" /\ addon' = addon
       ELSE /\ addon' = [addon EXCEPT
                           !.current_version = addon.latest_version,
                           !.current_release =
                               IF addon.latest_is_release
                               THEN addon.latest_release ELSE None,
                           !.current_commit = addon.latest_commit]
            /\ pc' = "clone_repository"
    /\ dest0' = dest
    /\ UNCHANGED <<env, dest, git_repo, verdict, force, run, echo, composed>>

clone_repository ==
    /\ pc = "clone_repository"
    /\ git_repo' = addon.current_commit
    /\ pc' = "ensure_addon_dir"
    /\ UNCHANGED <<env, dest, addon, verdict, force, run, dest0, echo, composed>>

ensure_addon_dir ==
    /\ pc = "ensure_addon_dir"
    /\ dest' = [dest EXCEPT !.dirs = TRUE]
    /\ pc' = "generate_addon_config"
    /\ UNCHANGED <<env, addon, git_repo, verdict, force, run, dest0, echo, composed>>

generate_addon_config ==
    /\ pc = "generate_addon_config"
    /\ IF remote_config = NoFile
       THEN pc' = "exited:generate_addon_config" /\ dest' = dest   \* line 312
       ELSE /\ dest' = [dest EXCEPT
                          !.config_file = remote_config,
                          !.config_version = Get(addon.current_version)]
            /\ pc' = "update_static_files"
    /\ UNCHANGED <<env, addon, git_repo, verdict, force, run, dest0, echo, composed>>

update_static_files ==
    /\ pc = "update_static_files"
    /\ dest' = [dest EXCEPT !.static = git_repo]
    /\ pc' = "generate_readme"
    /\ UNCHANGED <<env, addon, git_repo, verdict, force, run, dest0, echo, composed>>

generate_readme ==
    /\ pc = "generate_readme"
    /\ dest' = IF readme_template THEN [dest EXCEPT !.readme = git_repo]
               ELSE dest
    /\ pc' = "generate_addon_changelog"
    /\ UNCHANGED <<env, addon, git_repo, verdict, force, run, dest0, echo, composed>>

changelog_generated(r) ==
    /\ dest' = [dest EXCEPT !.changelog = r.changelog]
    /\ echo' = r.echo
    /\ composed' = r.composed
    /\ pc' = IF r.end = "ok" THEN "done" ELSE r.end

generate_addon_changelog ==
    /\ pc = "generate_addon_changelog"
    /\ \E tool_ok \in BOOLEAN, compare_ok \in BOOLEAN :
          changelog_generated(
              generate_addon_changelog_result(addon, tool_ok, compare_ok))
    /\ UNCHANGED <<env, addon, git_repo, verdict, force, run, dest0>>

\* The process ends; the next run of the action starts on the destination
\* as this run left it.
Aborted ==
    {"raised:load_current_info", "raised:load_latest_info",
     "exited:load_latest_info", "exited:update",
     "exited:generate_addon_config", "exited:generate_addon_changelog",
     "raised:generate_addon_changelog"}

Ended ==
    \/ pc \in Aborted \cup {"done"}
    \/ pc = "checked" /\ ~caller_updates

next_run ==
    /\ Ended
    /\ run < MaxRuns
    /\ run' = run + 1
    /\ pc' = "new"
    /\ addon' = NewAddon
    /\ git_repo' = 0
    /\ verdict' = FALSE
    /\ force' = FALSE
    /\ dest0' = dest
    /\ echo' = ""
    /\ composed' = 0
    /\ UNCHANGED <<env, dest>>

Next ==
    \/ new_Addon
    \/ call_needs_update
    \/ update
    \/ clone_repository
    \/ ensure_addon_dir
    \/ generate_addon_config
    \/ update_static_files
    \/ generate_readme
    \/ generate_addon_changelog
    \/ next_run


(***************************************************************************)
(* Initial states: the repositories and the destination a run can find.    *)
(***************************************************************************)
Tag_v100     == <<"v", "1", ".", "0", ".", "0">>
Tag_100      == <<"1", ".", "0", ".", "0">>
Tag_vv100    == <<"v", "v", "1", ".", "0", ".", "0">>
Tag_v110     == <<"v", "1", ".", "1", ".", "0">>
Tag_v110rc1  == <<"v", "1", ".", "1", ".", "0", "-", "r", "c", "1">>
Tag_v12      == <<"v", "1", ".", "2">>
Tag_v12b     == <<"v", "1", ".", "2", "-", "b">>
Tag_vv100ab  == <<"v", "v", "1", ".", "0", ".", "0", "+", "a", "-", "b">>

Version_100  == <<"1", ".", "0", ".", "0">>
Version_090  == <<"0", ".", "9", ".", "0">>

Rel(tag, pre, draft, c) ==
    [tag_name |-> tag, prerelease |-> pre, draft |-> draft, commit |-> c,
     annotated |-> FALSE]

\* Sequences of at most n members of S.
SeqsUpTo(S, n) == UNION {[1..k -> S] : k \in 0..n}

\* Published releases have tags of their own, on commits of the repository.
ReleasesOK(rs, h) ==
    /\ \A i \in 1..Len(rs) : rs[i].commit \in 1..h
    /\ \A i, j \in 1..Len(rs) :
          (i # j /\ ~rs[i].draft /\ ~rs[j].draft)
             => rs[i].tag_name # rs[j].tag_name

NoDest ==
    [config_file |-> NoFile, config_version |-> <<>>, changelog |-> None,
     static |-> 0, readme |-> 0, dirs |-> FALSE]

\* Changelogs a run can find: none, one a person wrote, one this tool wrote
\* (with one and with two entries), and ones whose marker is not on the last
\* non-empty line or is followed by blanks.
LegacyChangelog ==
    CHANGELOG_HEADER \o <<Tok("text"), NL>>
ToolChangelog ==
    CHANGELOG_HEADER \o <<Entry(Version_090), NL, NL>> \o MARKER_BLOCK
EditedChangelog ==
    ToolChangelog \o <<Tok("text"), NL>>
PaddedChangelog ==
    <<Tok("marker words"), Tok("space"), NL, Tok("space"), NL>>
Changelogs ==
    {None, Some(<<>>), Some(LegacyChangelog), Some(ToolChangelog),
     Some(EditedChangelog), Some(PaddedChangelog)}

InitRun ==
    /\ pc = "new"
    /\ addon = NewAddon
    /\ git_repo = 0
    /\ verdict = FALSE
    /\ force = FALSE
    /\ run = 1
    /\ dest0 = dest
    /\ echo = ""
    /\ composed = 0

\* The life of an add-on on every channel: few releases, every kind of
\* destination.
LifeReleases(h) ==
    {Rel(Tag_v100, FALSE, FALSE, 1), Rel(Tag_100, FALSE, FALSE, h),
     Rel(Tag_v110rc1, TRUE, FALSE, h), Rel(Tag_v110, FALSE, TRUE, h)}

Init ==
    /\ channel \in Channels
    /\ updating \in BOOLEAN
    /\ head \in 1..MaxCommits
    /\ releases \in {rs \in SeqsUpTo(LifeReleases(head), MaxReleases) :
                        ReleasesOK(rs, head)}
    /\ remote_config \in {NoFile, "config.json"}
    /\ bump \in {0, 1}
    /\ readme_template = TRUE
    /\ \E cfg \in {None, Some(Version_100), Some(Version_090), Some(short_sha(1))},
          cl \in Changelogs :
          dest = IF cfg = None THEN [NoDest EXCEPT !.changelog = cl]
                 ELSE [NoDest EXCEPT !.config_file = "config.yaml",
                                     !.config_version = Get(cfg),
                                     !.changelog = cl, !.dirs = TRUE]
    /\ get_commit_peels = TRUE
    /\ InitRun

Spec == Init /\ [][Next]_vars

\* Release selection: every kind of tag and flag, on every channel.
SelectTags ==
    {Tag_v100, Tag_vv100, Tag_v110rc1, Tag_v12, Tag_v12b, Tag_vv100ab}

SelectReleases ==
    {Rel(t, f[1], f[2], 1) :
        t \in SelectTags, f \in {<<FALSE, FALSE>>, <<TRUE, FALSE>>, <<FALSE, TRUE>>}}

InitSelect ==
    /\ channel \in Channels
    /\ updating = TRUE
    /\ head \in 1..2
    /\ releases \in {rs \in SeqsUpTo(SelectReleases, MaxReleases) :
                        ReleasesOK(rs, head)}
    /\ remote_config = "config.yaml"
    /\ bump = 0
    /\ readme_template = FALSE
    /\ dest = NoDest
    /\ get_commit_peels = TRUE
    /\ InitRun

SpecSelect == InitSelect /\ [][Next]_vars

\* The commit log of the edge channel: long histories, with and without a
\* release and a version bump.
InitLog ==
    /\ channel = CHANNEL_EDGE
    /\ updating = TRUE
    /\ head \in 1..MaxLogCommits
    /\ releases \in {<<>>, <<Rel(Tag_v100, FALSE, FALSE, 1)>>,
                     <<Rel(Tag_vv100, FALSE, FALSE, 1)>>}
    /\ remote_config = "config.yaml"
    /\ bump \in {b \in 0..MaxBump : b <= head}
    /\ readme_template = FALSE
    /\ dest = NoDest
    /\ get_commit_peels = TRUE
    /\ InitRun

SpecLog == InitLog /\ [][Next]_vars

\* Tag resolution: a persisted version that parses and one that does not,
\* their tags with and without the "v", lightweight and annotated, and both
\* answers of the commits endpoint to a tag object's sha.  (The releases of
\* the other specifications carry lightweight tags, where that answer is
\* never asked for.)
Tag_12 == <<"1", ".", "2">>

Annotated(r) == [r EXCEPT !.annotated = TRUE]

TagReleases(h) ==
    LET light == {Rel(Tag_v100, FALSE, FALSE, 1), Rel(Tag_100, FALSE, FALSE, h),
                  Rel(Tag_v12, FALSE, FALSE, 1), Rel(Tag_12, FALSE, FALSE, h)}
    IN  light \cup {Annotated(r) : r \in light}

InitTags ==
    /\ channel = CHANNEL_STABLE
    /\ updating = TRUE
    /\ head \in 1..MaxCommits
    /\ releases \in {rs \in SeqsUpTo(TagReleases(head), MaxReleases) :
                        ReleasesOK(rs, head)}
    /\ remote_config = "config.yaml"
    /\ bump = 0
    /\ readme_template = FALSE
    /\ \E cfg \in {None, Some(Version_100), Some(Version_090), Some(Tag_12),
                   Some(short_sha(1))} :
          dest = IF cfg = None THEN NoDest
                 ELSE [NoDest EXCEPT !.config_file = "config.yaml",
                                     !.config_version = Get(cfg),
                                     !.dirs = TRUE]
    /\ get_commit_peels \in BOOLEAN
    /\ InitRun

SpecTags == InitTags /\ [][Next]_vars


(***************************************************************************)
(* Properties.                                                             *)
(***************************************************************************)
\* __load_latest_info ran to its last line or to its sys.exit.
LatestResolved ==
    /\ updating
    /\ pc \notin {"new", "raised:load_current_info", "raised:load_latest_info"}

\* A release counts as a pre-release: its flag, or its label's pre-release
\* segment, or a hyphen in a label that is no semantic version.
CountsAsPrerelease(r) ==
    LET label == lstrip_v(r.tag_name)
    IN  \/ r.prerelease
        \/ semver_parses(label) /\ semver_has_prerelease(label)
        \/ ~semver_parses(label) /\ Contains(label, "-")

Eligible(r) ==
    ~r.draft /\ (channel = CHANNEL_BETA \/ ~CountsAsPrerelease(r))

FirstEligible(i) ==
    /\ i \in 1..Len(releases)
    /\ Eligible(releases[i])
    /\ \A j \in 1..(i - 1) : ~Eligible(releases[j])

NoEligible == \A i \in 1..Len(releases) : ~Eligible(releases[i])

\* C1: needs_update(force) is true exactly when updating is enabled and
\* force is set, or the current and latest labels differ, or the current and
\* latest commits differ; it is false whenever updating is disabled.
C1_NeedsUpdate ==
    pc = "checked" =>
        /\ (~updating => ~verdict)
        /\ (updating =>
              (verdict <=> \/ force
                           \/ addon.current_version # addon.latest_version
                           \/ addon.current_commit # addon.latest_commit))

\* An updating add-on whose labels are equal and whose commits differ needs
\* an update without force.
C1_Witness ==
    /\ pc = "checked"
    /\ updating
    /\ ~force
    /\ IsSome(addon.current_version)
    /\ addon.current_version = addon.latest_version
    /\ addon.current_commit # 0
    /\ addon.current_commit # addon.latest_commit
    /\ verdict

\* C2: the release chosen as latest is the first of the newest-first listing
\* that is no draft and, unless the channel is beta, no pre-release; no
\* release is chosen when there is none, and a draft is never chosen.
C2_ReleaseSelection ==
    LatestResolved =>
        /\ \A i \in 1..Len(releases) :
              FirstEligible(i) => addon.latest_release = Some(releases[i])
        /\ (NoEligible => addon.latest_release = None)
        /\ (IsSome(addon.latest_release) => ~Get(addon.latest_release).draft)

\* On stable, the newest release is an unflagged pre-release by its
\* hyphenated label (no semantic version), and the next release is chosen.
C2_Witness ==
    /\ pc = "constructed"
    /\ channel = CHANNEL_STABLE
    /\ Len(releases) = 2
    /\ releases[1] = Rel(Tag_v12b, FALSE, FALSE, 1)
    /\ ~releases[2].draft
    /\ addon.latest_release = Some(releases[2])

\* C3: latest_is_release is false exactly on edge when no release survived
\* the filter or the newest commit's sha differs from the chosen release's;
\* latest is then the newest commit, labelled by the first 7 characters of
\* its sha.  On stable and beta latest is never a raw commit, and on edge
\* with the release on the newest commit the release stays the latest.
C3_EdgeTracksHead ==
    /\ (channel # CHANNEL_EDGE => addon.latest_is_release)
    /\ LatestResolved =>
        /\ ~addon.latest_is_release <=>
              /\ channel = CHANNEL_EDGE
              /\ \/ NoEligible
                 \/ \E i \in 1..Len(releases) :
                       FirstEligible(i) /\ Sha(releases[i].commit) # Sha(head)
        /\ ~addon.latest_is_release =>
              /\ addon.latest_commit = head
              /\ addon.latest_version = Some(SubSeq(Sha(head), 1, 7))
        /\ \A i \in 1..Len(releases) :
              (channel = CHANNEL_EDGE /\ FirstEligible(i)
                 /\ releases[i].commit = head) =>
                   /\ addon.latest_is_release
                   /\ addon.latest_release = Some(releases[i])
                   /\ addon.latest_commit = head
                   /\ addon.latest_version = Some(lstrip_v(releases[i].tag_name))

\* On edge a release exists, the newest commit is another one, and latest is
\* the raw commit.
C3_Witness ==
    /\ pc = "constructed"
    /\ channel = CHANNEL_EDGE
    /\ IsSome(addon.latest_release)
    /\ Get(addon.latest_release).commit # head
    /\ ~addon.latest_is_release
    /\ addon.latest_commit = head


\* The persisted version, when there is one, resolves to a commit.
CurrentResolves == pc # "raised:load_current_info"

\* C4: the absent conditions (no persisted version, no release surviving the
\* channel's filter, no version-bump commit) never abort the add-on on any
\* channel: with the persisted version resolvable, the configuration present
\* in the source, and the composition tool and the compare query succeeding,
\* no run aborts, and once latest is resolved it has a commit and a label.
C4_AbsentNeverAborts ==
    (updating /\ pc # "new" /\ CurrentResolves /\ remote_config # NoFile
       /\ pc \notin {"exited:generate_addon_changelog",
                     "raised:generate_addon_changelog"})
      => /\ pc \notin Aborted
         /\ addon.latest_commit # 0
         /\ IsSome(addon.latest_version)

\* The files of the destination add-on directory.
DestFiles(d) ==
    <<d.config_file, d.config_version, d.static, d.readme, d.changelog>>

\* C5: when update() aborts, the destination's configuration file, static
\* files, README and changelog are as update() found them.
C5_AbortLeavesDestination ==
    pc \in {"exited:generate_addon_config", "exited:generate_addon_changelog",
            "raised:generate_addon_changelog"}
      => DestFiles(dest) = DestFiles(dest0)


(***************************************************************************)
(* The changelog read by lines.                                            *)
(***************************************************************************)
Max(S) == CHOOSE x \in S : \A y \in S : y <= x

\* The last line of the file that holds anything but its line break, without
\* the line break.
LastNonEmptyLine(file) ==
    LET filled == {i \in 1..Len(file) : file[i] # NL}
    IN  IF filled = {} THEN <<>>
        ELSE LET j == Max(filled)
                 s == Max({0} \cup {i \in 1..j : file[i] = NL})
             IN  SubSeq(file, s + 1, j)

\* A changelog the tool trusts: its last non-empty line holds the marker.
Trusted(cl) == IsSome(cl) /\ has_marker(LastNonEmptyLine(Get(cl)))

\* The changelog without its comments.
Body(file) == SelectSeq(file, LAMBDA t : t.k \notin {"comment", "marker comment"})

\* State A: the stable channel, latest being a release.
StateA == channel = CHANNEL_STABLE /\ addon.latest_is_release

\* C6: in State A, a run on an add-on that is up to date, whose changelog's
\* last non-empty line holds the marker, leaves the changelog as it is: the
\* composition tool is not called and the file is the same after as before.
C6_UpToDateIsNoOp ==
    (pc = "done" /\ StateA /\ addon.up_to_date /\ Trusted(dest0.changelog))
      => /\ dest.changelog = dest0.changelog
         /\ composed = 0
         /\ echo = "Skipping"

\* A second run, after the run that published the release, skips.
C6_Witness ==
    /\ run = 2
    /\ pc = "done"
    /\ StateA
    /\ addon.up_to_date
    /\ force
    /\ Trusted(dest0.changelog)
    /\ Len(Get(dest0.changelog)) > Len(MARKER_BLOCK)
    /\ echo = "Skipping"

\* C7: in State A a changelog is kept, and the new entry set into it, only
\* if its last non-empty line holds the marker; otherwise the file starts
\* again from the header.  Every State A run that composes ends with the
\* marker block, so that the changelog of a completed State A run is one the
\* next run trusts.  The line the code reads by seeking is the last
\* non-empty line.
C7_MarkerKeepsChangelog ==
    (pc = "done" /\ StateA) =>
        LET new == Get(dest.changelog)
            entry == <<Entry(Get(addon.latest_version)), NL, NL>>
        IN  /\ Trusted(dest.changelog)
            /\ read_last_nonempty_line(new) = rstrip(LastNonEmptyLine(new))
            /\ has_marker(read_last_nonempty_line(new))
            /\ echo = "Done" =>
                 /\ composed = 1
                 /\ SubSeq(new, Len(new) - Len(MARKER_BLOCK) + 1, Len(new))
                       = MARKER_BLOCK
                 /\ IF Trusted(dest0.changelog)
                    THEN LET old == Body(Get(dest0.changelog))
                             composition ==
                                 SubSeq(new, 1, Len(new) - Len(MARKER_BLOCK))
                         IN  \E k \in 0..Len(old) :
                                composition = SubSeq(old, 1, k) \o entry
                                                 \o SubSeq(old, k + 1, Len(old))
                    ELSE new = CHANGELOG_HEADER \o entry \o MARKER_BLOCK

\* The second of two runs that compose: it finds the changelog the first
\* wrote, trusts it and sets its entry above the first run's.
C7_Witness ==
    /\ run = 2
    /\ pc = "done"
    /\ StateA
    /\ echo = "Done"
    /\ Trusted(dest0.changelog)
    /\ Cardinality({i \in 1..Len(Get(dest0.changelog)) :
                        Get(dest0.changelog)[i].k = "entry"}) >= 1
    /\ Cardinality({i \in 1..Len(Get(dest.changelog)) :
                        Get(dest.changelog)[i].k = "entry"}) >= 2


(***************************************************************************)
(* The changelog of State C (latest is a raw commit).                      *)
(***************************************************************************)
\* The commits of the bullets of a changelog, in the order of the file.
BulletCommits(file) ==
    LET bullets == SelectSeq(file, LAMBDA t : t.k = "bullet")
    IN  [i \in 1..Len(bullets) |-> bullets[i].c]

Notes(file) == SelectSeq(file, LAMBDA t : t.k = "note")

StateC == pc = "done" /\ ~addon.latest_is_release

Min(a, b) == IF a <= b THEN a ELSE b

\* The text of n bullets, from commit c downwards.
BulletsDownFrom(c, n) ==
    [k \in 1..(2 * n) |-> IF k % 2 = 1 THEN Bullet(c - (k - 1) \div 2) ELSE NL]

\* C8 as claimed: in State C the bullets are listed oldest commit first.
C8_OldestFirst ==
    StateC =>
        LET b == BulletCommits(Get(dest.changelog))
        IN  \A i, j \in 1..Len(b) : i < j => b[i] < b[j]

\* C8 as it holds: in State C the bullets are listed newest commit first.
\* With a prior release they are the commits after the release's up to the
\* current one, newest first, under the "since" header of the release; with
\* no release and no version bump, a history of at most 100 commits gives
\* the header "## Unreleased changes" and one bullet per commit, the newest
\* commit's first and the oldest's last.
C8_NewestFirst ==
    StateC =>
        LET file == Get(dest.changelog)
            b == BulletCommits(file)
        IN  /\ \A i, j \in 1..Len(b) : i < j => b[i] > b[j]
            /\ IsSome(addon.latest_release) =>
                 LET r == Get(addon.latest_release)
                 IN  /\ Len(b) = head - r.commit
                     /\ \A i \in 1..Len(b) : b[i] = head - i + 1
                     /\ SubSeq(file, 1, Len(CHANGELOG_HEADER)) = CHANGELOG_HEADER
                     /\ file[Len(CHANGELOG_HEADER) + 1].k = "since"
            /\ (addon.latest_release = None /\ bump = 0 /\ head <= MaxBullets) =>
                 file = CHANGELOG_HEADER \o <<Unreleased, NL, NL>>
                           \o BulletsDownFrom(head, head)


\* A history of five commits, no release, no version bump: five bullets
\* under "## Unreleased changes", from the newest commit to the oldest.
C8_Witness ==
    /\ StateC
    /\ head = 5
    /\ releases = <<>>
    /\ bump = 0
    /\ BulletCommits(Get(dest.changelog)) = <<5, 4, 3, 2, 1>>
    /\ Get(dest.changelog)[Len(CHANGELOG_HEADER) + 1] = Unreleased

\* C9: in State C with no prior release the bullets are the first-parent
\* commits strictly newer than the version-bump commit (all of them when
\* there is none), at most 100: with n such commits min(n, 100) bullets are
\* written, the newest ones, and the truncation note is written once when
\* n > 100 and not at all otherwise.
C9_BulletCap ==
    (StateC /\ addon.latest_release = None) =>
        LET file == Get(dest.changelog)
            b == BulletCommits(file)
            n == head - bump
        IN  /\ Len(b) = Min(n, 100)
            /\ \A i \in 1..Len(b) : b[i] = head - i + 1 /\ b[i] > bump
            /\ Len(Notes(file)) = IF n >= 101 THEN 1 ELSE 0
            /\ n >= 101 => file[Len(file) - 1] = Note(100)

\* 101 commits are newer than the version bump: 100 bullets and the note.
C9_Witness ==
    /\ StateC
    /\ addon.latest_release = None
    /\ bump = 1
    /\ head - bump = 101
    /\ Len(BulletCommits(Get(dest.changelog))) = 100
    /\ Len(Notes(Get(dest.changelog))) = 1

\* The versions of the entries and of the "since" headers of a changelog.
Versions(file, kind) ==
    LET ts == SelectSeq(file, LAMBDA t : t.k = kind)
    IN  {ts[i].v : i \in 1..Len(ts)}

\* C10 as claimed: the label of a release is its tag without one leading
\* "v", where the tag has one, and the tag itself otherwise: as latest
\* version, as the version of the composed entry, and in the "Unreleased
\* changes since" header.
C10_OneLeadingV ==
    /\ (LatestResolved /\ addon.latest_is_release /\ IsSome(addon.latest_release))
          => addon.latest_version
                = Some(lstrip_one(Get(addon.latest_release).tag_name))
    /\ (pc = "done" /\ addon.latest_is_release /\ echo = "Done")
          => lstrip_one(Get(addon.latest_release).tag_name)
                \in Versions(Get(dest.changelog), "entry")
    /\ (StateC /\ IsSome(addon.latest_release))
          => Versions(Get(dest.changelog), "since")
                = {lstrip_one(Get(addon.latest_release).tag_name)}


(***************************************************************************)
(* The resolution of tags.                                                 *)
(***************************************************************************)
\* The constructor has run past __load_current_info and update() has not
\* yet reassigned current.
CurrentAsLoaded ==
    pc \in {"constructed", "checked", "raised:load_latest_info",
            "exited:load_latest_info"}

\* The persisted version this run found, and its two forms as names.
Persisted == dest0.config_file # NoFile
PrefixedName == <<"v">> \o dest0.config_version
PlainName == dest0.config_version

\* The commit a tag of the repository is on, whatever kind of tag it is; 0
\* when the repository has no such tag.
TagCommit(name) ==
    IF \E i \in Published : releases[i].tag_name = name
    THEN releases[CHOOSE i \in Published : releases[i].tag_name = name].commit
    ELSE 0

\* The commit a name resolves to as a ref: a tag's commit, or the commit
\* whose sha it abbreviates; 0 when it resolves to nothing.
RefCommit(name) ==
    IF TagCommit(name) # 0 THEN TagCommit(name)
    ELSE IF Len(name) >= ShortShaLen /\ \E c \in 1..head : IsPrefix(name, Sha(c))
    THEN CHOOSE c \in 1..head : IsPrefix(name, Sha(c))
    ELSE 0

\* The tag of the current version: "v<version>" when it exists, else
\* "<version>".
CurrentTagCommit ==
    IF TagCommit(PrefixedName) # 0 THEN TagCommit(PrefixedName)
    ELSE TagCommit(PlainName)

\* C11: every resolution of a tag ends on the commit the tag is on, be the
\* tag lightweight or annotated.  When the current version has a tag, the
\* constructor resolves it (it does not abort) and the current commit is the
\* tag's commit; when latest is a release, the latest commit is the commit
\* of the release's tag.
C11_TagsDereferenced ==
    /\ (pc # "new" /\ Persisted /\ CurrentTagCommit # 0) =>
          /\ pc # "raised:load_current_info"
          /\ CurrentAsLoaded => addon.current_commit = CurrentTagCommit
    /\ (LatestResolved /\ IsSome(addon.latest_release)
           /\ addon.latest_is_release) =>
          addon.latest_commit = Get(addon.latest_release).commit

\* C12: the resolution of the current version.  A version that parses uses
\* the tag "v<version>" when it exists and the tag "<version>" only when it
\* does not; a version that does not parse uses the ref "v<version>" and the
\* ref "<version>" only when the first resolves to nothing; the run aborts
\* in __load_current_info exactly when neither form resolves.
C12_ResolveCurrent ==
    (pc # "new" /\ Persisted) =>
        LET prefixed == IF semver_parses(PlainName) THEN TagCommit(PrefixedName)
                        ELSE RefCommit(PrefixedName)
            plain    == IF semver_parses(PlainName) THEN TagCommit(PlainName)
                        ELSE RefCommit(PlainName)
        IN  /\ pc = "raised:load_current_info" <=> (prefixed = 0 /\ plain = 0)
            /\ CurrentAsLoaded =>
                  addon.current_commit = IF prefixed # 0 THEN prefixed ELSE plain


(***************************************************************************)
(* update() and the add-on's current version.                              *)
(***************************************************************************)
Current(a) == <<a.current_version, a.current_release, a.current_commit>>

\* A step of one run on one add-on object: neither the constructor nor the
\* start of the next run.
SameObject == pc # "new" /\ pc' # "new"

\* update() passes its guard and goes on to its calls.
UpdateEntered == pc = "checked" /\ pc' = "clone_repository"

\* C13 as claimed: current changes only in the step that ends the update
\* operation, after the clone, the configuration, the static files, the
\* README and the changelog; up_to_date never changes after construction.
C13_ReassignedAtEnd ==
    [][SameObject =>
          /\ Current(addon') # Current(addon) => pc' = "done"
          /\ addon'.up_to_date = addon.up_to_date]_vars

\* C13 as it holds: update() reassigns current to the prior latest (the
\* release only when latest is a release) as its first act, before the
\* clone, which checks that commit out; no later step of the update changes
\* current, and up_to_date never changes after construction.
C13_ReassignedFirst ==
    [][SameObject =>
          /\ UpdateEntered =>
                Current(addon') =
                    <<addon.latest_version,
                      IF addon.latest_is_release THEN addon.latest_release
                      ELSE None,
                      addon.latest_commit>>
          /\ ~UpdateEntered => Current(addon') = Current(addon)
          /\ pc = "clone_repository" => git_repo' = addon.latest_commit
          /\ addon'.up_to_date = addon.up_to_date]_vars

\* update() has reassigned current and nothing is cloned or written yet:
\* the add-on's current version is the latest one, the destination still
\* holds the version the run found, and up_to_date still says "outdated".
C13_Witness ==
    /\ pc = "clone_repository"
    /\ git_repo = 0
    /\ dest = dest0
    /\ dest.config_file # NoFile
    /\ addon.current_version = addon.latest_version
    /\ addon.current_commit = addon.latest_commit
    /\ Some(dest.config_version) # addon.current_version
    /\ ~addon.up_to_date

====
